---- MODULE Spec2Model ----
(***************************************************************************)
(* Model of OsBot (src/src/os-bot.ts) and of its driver (src/src/index.ts).*)
(*                                                                         *)
(* Text is modelled as a sequence of one-character strings, so that        *)
(* split / join / substring / trim / includes are computed character by    *)
(* character.  A value that may be null or undefined in the source is      *)
(* modelled as a sequence of length 0 (absent) or 1 (present).             *)
(***************************************************************************)
EXTENDS Integers, Sequences, FiniteSets, TLC

VARIABLES
  arg,       \* the argument of one call of a text function (TextSpec)
  ret,       \* <<>> before the call, <<value>> after it (TextSpec)
  pc,        \* the operation main() is at, or "done"
  stack,     \* the active calls of OsBot methods, innermost last
  calls,     \* every call made so far: calls[id] = [op, root]
  log,       \* every tracker / AI / file request made so far, in order
  returned,  \* what each of main()'s four calls returned: <<>> or <<value>>
  raised,    \* the error that reached main().catch: <<>> or <<error>>
  files      \* the files on disk: a set of [name, content]

vars == <<arg, ret, pc, stack, calls, log, returned, raised, files>>

textVars == <<arg, ret>>
botVars == <<pc, stack, calls, log, returned, raised, files>>

----------------------------------------------------------------------------
(* Bounds of the input sets.                                               *)

MaxLines == 5        \* lines of a body handed to extractCodeBlock
MaxSummaryLines == 6 \* lines handed to summarizeBody
MaxBlocks == 3       \* code blocks handed to detectCodeLanguages
MaxBodyLines == 3    \* lines of an issue body
MaxLabels == 2       \* labels of an issue

----------------------------------------------------------------------------
(* String primitives of the JavaScript runtime.                            *)

NL == "\n"

Min(a, b) == IF a < b THEN a ELSE b

SeqsUpTo(S, n) == UNION {[1..k -> S] : k \in 0..n}

Rep(c, n) == [i \in 1..n |-> c]

startsWith(s, p) == Len(s) >= Len(p) /\ SubSeq(s, 1, Len(p)) = p

includes(s, p) == \E i \in 0..(Len(s) - Len(p)) : SubSeq(s, i + 1, i + Len(p)) = p

substring(s, from, to) == SubSeq(s, Min(from, Len(s)) + 1, Min(to, Len(s)))

slice(a, from, to) == SubSeq(a, Min(from, Len(a)) + 1, Min(to, Len(a)))

RECURSIVE join(_, _)
join(a, sep) ==
  IF Len(a) = 0 THEN <<>>
  ELSE IF Len(a) = 1 THEN a[1]
  ELSE a[1] \o sep \o join(Tail(a), sep)

RECURSIVE split(_, _)
split(s, sep) ==
  IF \A i \in 1..Len(s) : s[i] # sep THEN <<s>>
  ELSE LET i == CHOOSE k \in 1..Len(s) :
                  s[k] = sep /\ \A j \in 1..(k - 1) : s[j] # sep
       IN  <<SubSeq(s, 1, i - 1)>> \o split(SubSeq(s, i + 1, Len(s)), sep)

WhiteSpace == {" ", "\n", "\t", "\r"}

trim(s) ==
  IF \A i \in 1..Len(s) : s[i] \in WhiteSpace THEN <<>>
  ELSE LET a == CHOOSE k \in 1..Len(s) :
                  s[k] \notin WhiteSpace /\ \A j \in 1..(k - 1) : s[j] \in WhiteSpace
           b == CHOOSE k \in 1..Len(s) :
                  s[k] \notin WhiteSpace /\ \A j \in (k + 1)..Len(s) : s[j] \in WhiteSpace
       IN  SubSeq(s, a, b)

\* \w of the regular expression: letters, digits and underscore
WordChars ==
  {"a", "b", "c", "d", "e", "f", "g", "h", "i", "j", "k", "l", "m", "n", "o",
   "p", "q", "r", "s", "t", "u", "v", "w", "x", "y", "z",
   "A", "B", "C", "D", "E", "F", "G", "H", "I", "J", "K", "L", "M", "N", "O",
   "P", "Q", "R", "S", "T", "U", "V", "W", "X", "Y", "Z",
   "0", "1", "2", "3", "4", "5", "6", "7", "8", "9", "_"}

\* JavaScript truthiness of a string that may be null: present and not ""
truthy(opt) == Len(opt) = 1 /\ Len(opt[1]) > 0

----------------------------------------------------------------------------
(* summarizeBody                                                           *)

SummaryLines == 5
SummaryChars == 200

Ellipsis == <<".", ".", ".">>

NoDescriptionAvailable ==
  <<"N", "o", " ", "d", "e", "s", "c", "r", "i", "p", "t", "i", "o", "n", " ",
    "a", "v", "a", "i", "l", "a", "b", "l", "e", ".">>

\* bodyLines is <<>> (null / undefined) or <<lines>>
summarizeBody(bodyLines) ==
  IF bodyLines = <<>> \/ Len(bodyLines[1]) = 0
  THEN NoDescriptionAvailable
  ELSE substring(join(slice(bodyLines[1], 0, SummaryLines), <<NL>>), 0, SummaryChars)
         \o Ellipsis

----------------------------------------------------------------------------
(* extractCodeBlock                                                        *)

\* the backtick character (the lexer of SANY accepts none inside a string)
BackTick == "<backtick>"

Fence == <<BackTick, BackTick, BackTick>>

extractInit == [codeBlocks |-> <<>>, inCodeBlock |-> FALSE, currentBlock |-> <<>>]

\* extractLine with the test of inCodeBlock lost: every marker closes a block
extractLineEveryMarker(st, line) ==
  IF startsWith(line, Fence)
  THEN [codeBlocks   |-> Append(st.codeBlocks, trim(st.currentBlock)),
        currentBlock |-> <<>>,
        inCodeBlock  |-> ~st.inCodeBlock]
  ELSE IF st.inCodeBlock
       THEN [st EXCEPT !.currentBlock = @ \o line \o <<NL>>]
       ELSE st

\* one iteration of the forEach callback
extractLine(st, line) ==
  IF startsWith(line, Fence)
  THEN [codeBlocks   |-> IF st.inCodeBlock
                         THEN Append(st.codeBlocks, trim(st.currentBlock))
                         ELSE st.codeBlocks,
        currentBlock |-> IF st.inCodeBlock THEN <<>> ELSE st.currentBlock,
        inCodeBlock  |-> ~st.inCodeBlock]
  ELSE IF st.inCodeBlock
       THEN [st EXCEPT !.currentBlock = @ \o line \o <<NL>>]
       ELSE st

RECURSIVE extractLoop(_, _)
extractLoop(st, lines) ==
  IF lines = <<>> THEN st ELSE extractLoop(extractLine(st, Head(lines)), Tail(lines))

extractCodeBlock(bodyLines) == extractLoop(extractInit, bodyLines).codeBlocks

----------------------------------------------------------------------------
(* extractMentions: every match of /@(\w+)/g, group 1                      *)

\* the end of the maximal run of word characters that starts at i
wordRun(s, i) ==
  CHOOSE e \in i..Len(s) :
    /\ \A j \in i..e : s[j] \in WordChars
    /\ e + 1 <= Len(s) => s[e + 1] \notin WordChars

\* where a match starts: no match can start inside another, "@" is not in \w
matchStarts(s) ==
  {i \in 1..(Len(s) - 1) : s[i] = "@" /\ s[i + 1] \in WordChars}

RECURSIVE matchAll(_, _)
\* the matches that start at or after i, in order of occurrence
matchAll(s, i) ==
  IF \A m \in matchStarts(s) : m < i THEN <<>>
  ELSE LET m == CHOOSE k \in matchStarts(s) :
                  k >= i /\ \A n \in matchStarts(s) : n >= i => k <= n
           e == wordRun(s, m + 1)
       IN  <<SubSeq(s, m + 1, e)>> \o matchAll(s, e + 1)

extractMentions(body) == matchAll(body, 1)

----------------------------------------------------------------------------
(* detectCodeLanguages                                                     *)

languageHints ==
  << [lang  |-> "javascript",
      hints |-> << <<"c", "o", "n", "s", "t">>,
                   <<"l", "e", "t">>,
                   <<"v", "a", "r">>,
                   <<"f", "u", "n", "c", "t", "i", "o", "n">> >>],
     [lang  |-> "python",
      hints |-> << <<"d", "e", "f">>,
                   <<"i", "m", "p", "o", "r", "t">>,
                   <<"c", "l", "a", "s", "s">>,
                   <<"i", "f", " ", "_", "_", "n", "a", "m", "e", "_", "_">> >>],
     [lang  |-> "java",
      hints |-> << <<"p", "u", "b", "l", "i", "c", " ", "c", "l", "a", "s", "s">>,
                   <<"p", "r", "i", "v", "a", "t", "e">>,
                   <<"p", "r", "o", "t", "e", "c", "t", "e", "d">>,
                   <<"i", "m", "p", "o", "r", "t", " ", "j", "a", "v", "a">> >>],
     [lang  |-> "typescript",
      hints |-> << <<"i", "n", "t", "e", "r", "f", "a", "c", "e">>,
                   <<"t", "y", "p", "e">>,
                   <<"e", "n", "u", "m">>,
                   <<"n", "a", "m", "e", "s", "p", "a", "c", "e">> >>] >>

\* hints.some((hint) => block.includes(hint))
someHint(block, hints) == \E h \in 1..Len(hints) : includes(block, hints[h])

\* scanHints with the break lost: every matching language is added
RECURSIVE scanHintsNoBreak(_, _)
scanHintsNoBreak(block, k) ==
  IF k > Len(languageHints) THEN <<>>
  ELSE (IF someHint(block, languageHints[k].hints)
        THEN <<languageHints[k].lang>> ELSE <<>>)
         \o scanHintsNoBreak(block, k + 1)

\* the for ... of loop with its break: the languages one block adds
RECURSIVE scanHints(_, _)
scanHints(block, k) ==
  IF k > Len(languageHints) THEN <<>>
  ELSE IF someHint(block, languageHints[k].hints)
       THEN <<languageHints[k].lang>>
       ELSE scanHints(block, k + 1)

\* Set.add keeps insertion order and ignores a value already present
RECURSIVE setAdd(_, _)
setAdd(set, langs) ==
  IF langs = <<>> THEN set
  ELSE setAdd(IF \E i \in 1..Len(set) : set[i] = Head(langs)
              THEN set ELSE Append(set, Head(langs)),
              Tail(langs))

RECURSIVE detectLoop(_, _)
detectLoop(languages, blocks) ==
  IF blocks = <<>> THEN languages
  ELSE detectLoop(setAdd(languages, scanHints(Head(blocks), 1)), Tail(blocks))

detectCodeLanguages(codeBlocks) == detectLoop(<<>>, codeBlocks)

----------------------------------------------------------------------------
(* provideSuggestions                                                      *)

ShortBody == 50

SuggestionsHeader == "Suggestions:\n"
NoDescription ==
  "- The issue has no description. Consider adding details about the problem or feature request.\n"
TooShort == "- The issue description is quite short. Consider adding more details.\n"
NoCodeBlocks ==
  "- No code blocks found. If applicable, consider adding relevant code snippets.\n"
NoLabels ==
  "- No labels applied. Adding appropriate labels can help categorize the issue.\n"

\* provideSuggestions with "else if" written as "if": an empty body is also short
provideSuggestionsNoElse(issue) ==
  <<SuggestionsHeader>>
    \o (IF ~truthy(issue.body) THEN <<NoDescription>> ELSE <<>>)
    \o (IF Len(issue.body) = 1 /\ Len(issue.body[1]) < ShortBody
        THEN <<TooShort>> ELSE <<>>)
    \o (IF ~truthy(issue.body)
           \/ Len(extractCodeBlock(split(issue.body[1], NL))) = 0
        THEN <<NoCodeBlocks>> ELSE <<>>)
    \o (IF Len(issue.labels) = 0 THEN <<NoLabels>> ELSE <<>>)

provideSuggestions(issue) ==
  <<SuggestionsHeader>>
    \o (IF ~truthy(issue.body) THEN <<NoDescription>>
        ELSE IF Len(issue.body[1]) < ShortBody THEN <<TooShort>>
        ELSE <<>>)
    \o (IF ~truthy(issue.body)
           \/ Len(extractCodeBlock(split(issue.body[1], NL))) = 0
        THEN <<NoCodeBlocks>> ELSE <<>>)
    \o (IF Len(issue.labels) = 0 THEN <<NoLabels>> ELSE <<>>)

----------------------------------------------------------------------------
(* generateAnalysis, getAIInsights and the value analyzeIssue returns.     *)
(* A report is the sequence of the pieces appended to it, each piece the   *)
(* tuple of the fragments of one template or literal.                      *)

toLocaleString(t) == <<"toLocaleString", t>>

\* labelsSection with the test of labels.length lost
labelsSectionAlways(issue) ==
  << <<"Labels:\n">> >>
    \o [i \in 1..Len(issue.labels) |-> <<"- ", issue.labels[i].name, "\n">>]
    \o << <<"\n">> >>

labelsSection(issue) ==
  IF Len(issue.labels) > 0
  THEN << <<"Labels:\n">> >>
         \o [i \in 1..Len(issue.labels) |-> <<"- ", issue.labels[i].name, "\n">>]
         \o << <<"\n">> >>
  ELSE <<>>

bodySection(issue) ==
  IF truthy(issue.body)
  THEN LET bodyLines  == split(issue.body[1], NL)
           codeBlocks == extractCodeBlock(bodyLines)
           mentions   == extractMentions(issue.body[1])
       IN  << <<"Issue Description:\n", summarizeBody(<<bodyLines>>), "\n\n">> >>
             \o (IF Len(codeBlocks) > 0
                 THEN << <<"Code Blocks Found: ", Len(codeBlocks), "\n">>,
                         <<"Languages detected: ",
                           detectCodeLanguages(codeBlocks), "\n\n">> >>
                 ELSE <<>>)
             \o (IF Len(mentions) > 0
                 THEN << <<"Mentions:\n">> >>
                        \o [i \in 1..Len(mentions) |-> <<"- ", mentions[i], "\n">>]
                        \o << <<"\n">> >>
                 ELSE <<>>)
  ELSE << <<"No description provided for this issue.\n\n">> >>

generateAnalysis(issue) ==
  << <<"Issue #", issue.number, ": ", issue.title, "\n\n">>,
     <<"Created by: ",
       IF issue.user # <<>> THEN issue.user[1].login ELSE "Unknown", "\n">>,
     <<"Created at: ", toLocaleString(issue.created_at), "\n\n">> >>
    \o labelsSection(issue)
    \o bodySection(issue)
    \o <<provideSuggestions(issue)>>

getAIInsights(text) == << <<"\nAI Insights:\n", text, "\n">> >>

\* analysis + aiInsights, the value of the try block of analyzeIssue
analyzeIssueReport(issue, text) == generateAnalysis(issue) \o getAIInsights(text)

----------------------------------------------------------------------------
(* The text functions applied to bounded inputs: Init draws one call, the  *)
(* action of the function called computes its result.                      *)

CodeLines ==
  { Fence,
    Fence \o <<"j", "s">>,
    <<" ">> \o Fence,
    <<"a">>,
    <<" ", "b", " ">>,
    <<>> }

SummaryInputLines == { <<>>, <<"a", "b">>, Rep("x", 120) }

BlockTexts ==
  { <<"v", "a", "r", " ", "x">>,
    <<"d", "e", "f", " ", "f">>,
    <<"l", "e", "t", " ", "d", "e", "f">>,
    <<"p", "r", "i", "v", "a", "t", "e">>,
    <<"i", "m", "p", "o", "r", "t", " ", "j", "a", "v", "a">>,
    <<"e", "n", "u", "m">>,
    <<"x", "=", "1">>,
    <<>> }

LongLine == <<"v", "a", "r", " ">> \o Rep("z", 50)

BodyLineSet ==
  { Fence,
    <<"v", "a", "r", " ", "x">>,
    <<"h", "i", " ", "@", "b", "o", "b">>,
    LongLine,
    <<>> }

Bodies ==
  {<<>>} \cup {<<join(ls, <<NL>>)>> : ls \in SeqsUpTo(BodyLineSet, MaxBodyLines)}

LabelNames == {"bug", "p1"}

Users == {<<>>, <<[login |-> "octocat"]>>}

IssueNumber == 2

IssueWith(b, ls, u) ==
  [number     |-> IssueNumber,
   title      |-> "Bug: crash on startup",
   body       |-> b,
   labels     |-> [i \in 1..Len(ls) |-> [name |-> ls[i]]],
   user       |-> u,
   created_at |-> "2024-01-01T00:00:00Z"]

Issues ==
  {IssueWith(b, ls, u) : b \in Bodies, ls \in SeqsUpTo(LabelNames, MaxLabels), u \in Users}

AITexts == {"insight"}

TextCalls ==
  {[fn |-> "extractCodeBlock", bodyLines |-> ls] : ls \in SeqsUpTo(CodeLines, MaxLines)}
    \cup {[fn |-> "summarizeBody", optBodyLines |-> b] :
             b \in {<<>>} \cup {<<ls>> : ls \in SeqsUpTo(SummaryInputLines, MaxSummaryLines)}}
    \cup {[fn |-> "detectCodeLanguages", codeBlocks |-> bs] :
             bs \in SeqsUpTo(BlockTexts, MaxBlocks)}
    \cup {[fn |-> "provideSuggestions", issue |-> i] : i \in Issues}
    \cup {[fn |-> "analyzeIssue", issue |-> i, text |-> t] : i \in Issues, t \in AITexts}

NoCall == [fn |-> "none"]

MainOps == <<"analyzeIssue", "suggestLabels", "prioritizeIssue", "generateHtmlReport">>

BotIdle ==
  /\ pc = "done"
  /\ stack = <<>>
  /\ calls = <<>>
  /\ log = <<>>
  /\ returned = [i \in 1..Len(MainOps) |-> <<>>]
  /\ raised = <<>>
  /\ files = {}

TextInit ==
  /\ arg \in TextCalls
  /\ ret = <<>>
  /\ BotIdle

CallExtractCodeBlock ==
  /\ arg.fn = "extractCodeBlock" /\ ret = <<>>
  /\ ret' = <<extractCodeBlock(arg.bodyLines)>>
  /\ UNCHANGED <<arg, botVars>>

CallSummarizeBody ==
  /\ arg.fn = "summarizeBody" /\ ret = <<>>
  /\ ret' = <<summarizeBody(arg.optBodyLines)>>
  /\ UNCHANGED <<arg, botVars>>

CallDetectCodeLanguages ==
  /\ arg.fn = "detectCodeLanguages" /\ ret = <<>>
  /\ ret' = <<detectCodeLanguages(arg.codeBlocks)>>
  /\ UNCHANGED <<arg, botVars>>

CallProvideSuggestions ==
  /\ arg.fn = "provideSuggestions" /\ ret = <<>>
  /\ ret' = <<provideSuggestions(arg.issue)>>
  /\ UNCHANGED <<arg, botVars>>

\* analyzeIssue on the path where the fetch answers arg.issue and the AI arg.text
CallAnalyzeIssue ==
  /\ arg.fn = "analyzeIssue" /\ ret = <<>>
  /\ ret' = <<analyzeIssueReport(arg.issue, arg.text)>>
  /\ UNCHANGED <<arg, botVars>>

TextNext ==
  \/ CallExtractCodeBlock
  \/ CallSummarizeBody
  \/ CallDetectCodeLanguages
  \/ CallProvideSuggestions
  \/ CallAnalyzeIssue

TextSpec == TextInit /\ [][TextNext]_vars

----------------------------------------------------------------------------
(* main() of index.ts and the asynchronous methods of OsBot.  A method is  *)
(* a frame on the stack; each await of a request is one action, which      *)
(* draws the outcome of the request.                                       *)

Degraded == "Unable to analyze the issue at this time."
FetchFailed == "Failed to fetch issue data"
AIServiceFailed == "GoogleGenerativeAI error"
WriteFailed == "fs.writeFile error"
TypeError == "TypeError: cannot read properties of null (reading 'login')"

\* what the tracker may answer: the scenario issue, and a bare one
RemoteIssues ==
  { IssueWith(<<join(<<Fence, <<"h", "i", " ", "@", "b", "o", "b">>, Fence>>, <<NL>>)>>,
              <<"bug", "p1">>, <<[login |-> "octocat"]>>),
    IssueWith(<< <<>> >>, <<>>, <<[login |-> "octocat"]>>),
    IssueWith(<<>>, <<>>, <<>>) }

\* what the AI may answer to the label prompt
LabelTexts ==
  { <<"b", "u", "g", NL, NL, "u", "i", NL>>,
    <<" ", NL>> }

PriorityTexts == {"High: crashes on startup"}

\* analyzeIssue with its try / catch lost
CatchesNothing(op) == FALSE

\* the methods whose body is a try block with a catch that returns
Catches(op) == op = "analyzeIssue"

\* StepsOf with fetchIssue awaited twice in analyzeIssue
StepsOfFetchTwice(op) ==
  CASE op = "analyzeIssue"       -> <<"fetchIssue", "fetchIssue", "getAIInsights">>
    [] op = "suggestLabels"      -> <<"fetchIssue", "generateContent">>
    [] op = "prioritizeIssue"    -> <<"fetchIssue", "generateContent">>
    [] op = "generateHtmlReport" -> <<"fetchIssue", "getAIInsights", "suggestLabels",
                                      "prioritizeIssue", "writeFile">>

\* StepsOf with the file written before prioritizeIssue is awaited
StepsOfWriteEarly(op) ==
  CASE op = "analyzeIssue"       -> <<"fetchIssue", "getAIInsights">>
    [] op = "suggestLabels"      -> <<"fetchIssue", "generateContent">>
    [] op = "prioritizeIssue"    -> <<"fetchIssue", "generateContent">>
    [] op = "generateHtmlReport" -> <<"fetchIssue", "getAIInsights", "suggestLabels",
                                      "writeFile", "prioritizeIssue">>

\* the awaits of each method, in program order
StepsOf(op) ==
  CASE op = "analyzeIssue"       -> <<"fetchIssue", "getAIInsights">>
    [] op = "suggestLabels"      -> <<"fetchIssue", "generateContent">>
    [] op = "prioritizeIssue"    -> <<"fetchIssue", "generateContent">>
    [] op = "generateHtmlReport" -> <<"fetchIssue", "getAIInsights", "suggestLabels",
                                      "prioritizeIssue", "writeFile">>

MainIndex(op) == CHOOSE i \in 1..Len(MainOps) : MainOps[i] = op

\* the statement of main() after the call of op
MainAfter(op) ==
  IF MainIndex(op) < Len(MainOps) THEN MainOps[MainIndex(op) + 1] ELSE "done"

NewFrame(id, op, root) ==
  [id |-> id, op |-> op, root |-> root, at |-> 1,
   issue |-> <<>>, analysis |-> <<>>, aiInsights |-> <<>>,
   suggestedLabels |-> <<>>, priority |-> <<>>]

Top == stack[Len(stack)]

Step(f) == StepsOf(f.op)[f.at]

AtStep(step) == stack # <<>> /\ Top.at <= Len(StepsOf(Top.op)) /\ Step(Top) = step

filename(issueNumber) == <<"issue-", issueNumber, "-report.html">>

\* the interpolations of the HTML template
htmlContent(f) ==
  [number |-> f.issue[1].number, title |-> f.issue[1].title,
   login |-> f.issue[1].user[1].login,
   created_at |-> toLocaleString(f.issue[1].created_at),
   analysis |-> f.analysis, aiInsights |-> f.aiInsights,
   suggestedLabels |-> f.suggestedLabels, priority |-> f.priority]

\* text.split("\n").filter((label) => label.trim() !== "")
labelLines(text) ==
  LET isLabel(label) == trim(label) # <<>>
  IN  SelectSeq(split(text, NL), isLabel)

\* the value of the return statement of a method
ReturnValue(f) ==
  CASE f.op = "analyzeIssue"       -> f.analysis[1] \o f.aiInsights[1]
    [] f.op = "suggestLabels"      -> f.suggestedLabels[1]
    [] f.op = "prioritizeIssue"    -> f.priority[1]
    [] f.op = "generateHtmlReport" -> filename(IssueNumber)

Current == [pc |-> pc, stack |-> stack, returned |-> returned, raised |-> raised]

Pop(st) == [st EXCEPT !.stack = SubSeq(@, 1, Len(@) - 1)]

RECURSIVE Return(_, _, _)
RECURSIVE Continue(_, _)

\* the method of the top frame of st returns value to the awaiting caller
Return(st, f, value) ==
  IF Len(st.stack) = 1
  THEN [st EXCEPT !.stack = <<>>,
                  !.returned[MainIndex(f.op)] = <<value>>,
                  !.pc = MainAfter(f.op)]
  ELSE LET caller == st.stack[Len(st.stack) - 1]
           resumed == IF Step(caller) = "suggestLabels"
                      THEN [caller EXCEPT !.suggestedLabels = <<value>>, !.at = @ + 1]
                      ELSE [caller EXCEPT !.priority = <<value>>, !.at = @ + 1]
       IN  Continue(Pop(st), resumed)

\* the top frame of st goes on as f: to its next await, or to its return
Continue(st, f) ==
  IF f.at <= Len(StepsOf(f.op))
  THEN [st EXCEPT !.stack[Len(st.stack)] = f]
  ELSE Return(st, f, ReturnValue(f))

RECURSIVE Throw(_, _)
\* err is thrown in the top frame of st: to the nearest catch, else to main().catch
Throw(st, err) ==
  LET f == st.stack[Len(st.stack)]
  IN  IF Catches(f.op) THEN Return(st, f, Degraded)
      ELSE IF Len(st.stack) = 1
           THEN [st EXCEPT !.stack = <<>>,
                           !.raised = <<[error |-> err, op |-> f.op]>>,
                           !.pc = "done"]
           ELSE Throw(Pop(st), err)

Become(st) ==
  /\ pc' = st.pc
  /\ stack' = st.stack
  /\ returned' = st.returned
  /\ raised' = st.raised

Request(f, kind, result) ==
  [call |-> f.id, root |-> f.root, op |-> f.op, kind |-> kind, result |-> result]

Init ==
  /\ arg = NoCall
  /\ ret = <<>>
  /\ pc = MainOps[1]
  /\ stack = <<>>
  /\ calls = <<>>
  /\ log = <<>>
  /\ returned = [i \in 1..Len(MainOps) |-> <<>>]
  /\ raised = <<>>
  /\ files = {}

\* main() calls the method it is at
MainCall ==
  /\ stack = <<>> /\ pc # "done"
  /\ stack' = <<NewFrame(Len(calls) + 1, pc, Len(calls) + 1)>>
  /\ calls' = Append(calls, [op |-> pc, root |-> Len(calls) + 1])
  /\ UNCHANGED <<pc, log, returned, raised, files, textVars>>

\* generateHtmlReport calls suggestLabels, then prioritizeIssue
NestedCall ==
  /\ AtStep("suggestLabels") \/ AtStep("prioritizeIssue")
  /\ stack' = Append(stack, NewFrame(Len(calls) + 1, Step(Top), Top.root))
  /\ calls' = Append(calls, [op |-> Step(Top), root |-> Top.root])
  /\ UNCHANGED <<pc, log, returned, raised, files, textVars>>

\* await this.fetchIssue(issueNumber)
FetchIssue ==
  /\ AtStep("fetchIssue")
  /\ \E result \in {"ok", "404", "transport"} :
       /\ log' = Append(log, Request(Top, "tracker", result))
       /\ IF result = "ok"
          THEN \E issue \in RemoteIssues :
                 Become(Continue(Current, [Top EXCEPT !.issue = <<issue>>, !.at = @ + 1]))
          ELSE Become(Throw(Current, FetchFailed))
  /\ UNCHANGED <<calls, files, textVars>>

\* this.generateAnalysis(issue); await this.getAIInsights(issue)
GetAIInsights ==
  /\ AtStep("getAIInsights")
  /\ \E result \in {"ok", "error"} :
       /\ log' = Append(log, Request(Top, "ai", result))
       /\ IF result = "ok"
          THEN \E text \in AITexts :
                 Become(Continue(Current,
                   [Top EXCEPT !.analysis = <<generateAnalysis(Top.issue[1])>>,
                               !.aiInsights = <<getAIInsights(text)>>,
                               !.at = @ + 1]))
          ELSE Become(Throw(Current, AIServiceFailed))
  /\ UNCHANGED <<calls, files, textVars>>

\* await model.generateContent(prompt) of suggestLabels
GenerateLabels ==
  /\ AtStep("generateContent") /\ Top.op = "suggestLabels"
  /\ \E result \in {"ok", "error"} :
       /\ log' = Append(log, Request(Top, "ai", result))
       /\ IF result = "ok"
          THEN \E text \in LabelTexts :
                 Become(Continue(Current,
                   [Top EXCEPT !.suggestedLabels = <<labelLines(text)>>, !.at = @ + 1]))
          ELSE Become(Throw(Current, AIServiceFailed))
  /\ UNCHANGED <<calls, files, textVars>>

\* await model.generateContent(prompt) of prioritizeIssue
GeneratePriority ==
  /\ AtStep("generateContent") /\ Top.op = "prioritizeIssue"
  /\ \E result \in {"ok", "error"} :
       /\ log' = Append(log, Request(Top, "ai", result))
       /\ IF result = "ok"
          THEN \E text \in PriorityTexts :
                 Become(Continue(Current, [Top EXCEPT !.priority = <<text>>, !.at = @ + 1]))
          ELSE Become(Throw(Current, AIServiceFailed))
  /\ UNCHANGED <<calls, files, textVars>>

\* the template is filled in, then await fs.writeFile(filename, htmlContent)
WriteFile ==
  /\ AtStep("writeFile")
  /\ IF Top.issue[1].user = <<>>
     THEN /\ Become(Throw(Current, TypeError))
          /\ UNCHANGED <<log, files>>
     ELSE \E result \in {"ok", "error"} :
            /\ log' = Append(log, Request(Top, "file", result))
            /\ IF result = "ok"
               THEN /\ files' = {w \in files : w.name # filename(IssueNumber)}
                                  \cup {[name |-> filename(IssueNumber),
                                         content |-> htmlContent(Top)]}
                    /\ Become(Continue(Current, [Top EXCEPT !.at = @ + 1]))
               ELSE /\ files' = files
                    /\ Become(Throw(Current, WriteFailed))
  /\ UNCHANGED <<calls, textVars>>

Next ==
  \/ MainCall
  \/ NestedCall
  \/ FetchIssue
  \/ GetAIInsights
  \/ GenerateLabels
  \/ GeneratePriority
  \/ WriteFile

Spec == Init /\ [][Next]_vars

----------------------------------------------------------------------------
(* Properties of the text functions (TextSpec).                            *)

Called(fn) == arg.fn = fn /\ ret # <<>>

\* the lines that start with the triple-backtick marker
FenceMarkers(lines) == {i \in 1..Len(lines) : startsWith(lines[i], Fence)}

\* the n-th marker line
NthMarker(lines, n) ==
  CHOOSE i \in FenceMarkers(lines) :
    Cardinality({j \in FenceMarkers(lines) : j <= i}) = n

\* the lines strictly between lines a and b, each with its line terminator, trimmed
LinesBetween(lines, a, b) ==
  trim(join([i \in 1..(b - a - 1) |-> lines[a + i] \o <<NL>>], <<>>))

\* C4: extractCodeBlock emits exactly floor(k / 2) blocks, k the number of
\* marker lines; block n holds only the lines between markers 2n-1 and 2n, in
\* body order; what follows an unclosed last marker is dropped; no lines, no
\* blocks.
C4_ExtractCodeBlock ==
  Called("extractCodeBlock") =>
    LET lines == arg.bodyLines
        k     == Cardinality(FenceMarkers(lines))
    IN  /\ Len(ret[1]) = k \div 2
        /\ \A n \in 1..Len(ret[1]) :
              ret[1][n] = LinesBetween(lines, NthMarker(lines, 2 * n - 1),
                                       NthMarker(lines, 2 * n))
        /\ lines = <<>> => ret[1] = <<>>

\* three markers, one block of content, and content after the unclosed marker
C4_Witness ==
  /\ Called("extractCodeBlock")
  /\ arg.bodyLines = <<Fence, <<"a">>, Fence, Fence, <<"a">> >>
  /\ ret[1] = << <<"a">> >>

\* C5: provideSuggestions starts with the header and appends exactly one line
\* per fired rule, in rule order; rules 1 and 2 never both fire; an issue with
\* body "" and no labels gets the header and at least three lines.
C5_ProvideSuggestions ==
  Called("provideSuggestions") =>
    LET out   == ret[1]
        body  == arg.issue.body
        empty == body = <<>> \/ Len(body[1]) = 0
        fired == << empty,
                    ~empty /\ Len(body[1]) < 50,
                    empty \/ Cardinality(FenceMarkers(split(body[1], NL))) < 2,
                    Len(arg.issue.labels) = 0 >>
        line  == <<NoDescription, TooShort, NoCodeBlocks, NoLabels>>
        at(r) == {i \in 2..Len(out) : out[i] = line[r]}
    IN  /\ out[1] = SuggestionsHeader
        /\ \A r \in 1..4 : Cardinality(at(r)) = IF fired[r] THEN 1 ELSE 0
        /\ Len(out) = 1 + Cardinality({r \in 1..4 : fired[r]})
        /\ \A r1, r2 \in 1..4 : \A i \in at(r1), j \in at(r2) : r1 < r2 => i < j
        /\ ~(at(1) # {} /\ at(2) # {})
        /\ (body = << <<>> >> /\ Len(arg.issue.labels) = 0) => Len(out) >= 4

\* body "" and no labels: the header and three lines
C5_Witness ==
  /\ Called("provideSuggestions")
  /\ arg.issue.body = << <<>> >>
  /\ Len(arg.issue.labels) = 0
  /\ ret[1] = <<SuggestionsHeader, NoDescription, NoCodeBlocks, NoLabels>>

SelectedLanguage(block) ==
  LET order == <<"javascript", "python", "java", "typescript">>
      hit   == {k \in 1..4 : languageHints[k].lang = order[k]
                               /\ someHint(block, languageHints[k].hints)}
  IN  IF hit = {} THEN {}
      ELSE {order[CHOOSE k \in hit : \A m \in hit : k <= m]}

\* C7: detectCodeLanguages holds exactly the languages selected by some block,
\* each block selecting only the first language in table order that has a hint
\* in it, and holds each language once.
C7_DetectCodeLanguages ==
  Called("detectCodeLanguages") =>
    LET out == ret[1]
    IN  /\ {out[i] : i \in 1..Len(out)}
             = UNION {SelectedLanguage(arg.codeBlocks[j]) : j \in 1..Len(arg.codeBlocks)}
        /\ \A i, j \in 1..Len(out) : i # j => out[i] # out[j]
        /\ \A k \in 1..4 :
             languageHints[k].lang = <<"javascript", "python", "java", "typescript">>[k]

\* a block with a javascript hint and a python hint contributes javascript only
C7_Witness ==
  /\ Called("detectCodeLanguages")
  /\ arg.codeBlocks = << <<"l", "e", "t", " ", "d", "e", "f">>, <<"x", "=", "1">> >>
  /\ ret[1] = <<"javascript">>

IsHeading(h) == h \notin {"- ", "\n"}

HasMention(body) ==
  \E i \in 1..(Len(body) - 1) : body[i] = "@" /\ body[i + 1] \in WordChars

\* C8: the sections of the text report come in the order header, metadata,
\* labels, description, code blocks with languages, mentions, suggestions, AI
\* insight; labels, code blocks and mentions are there exactly when the issue
\* has some; suggestions and the AI insight are always there, the AI insight
\* last.
C8_ReportSections ==
  Called("analyzeIssue") =>
    LET out   == ret[1]
        issue == arg.issue
        text  == truthy(issue.body)
        heads == SelectSeq([i \in 1..Len(out) |-> out[i][1]], IsHeading)
    IN  /\ heads =
             <<"Issue #", "Created by: ", "Created at: ">>
               \o (IF Len(issue.labels) > 0 THEN <<"Labels:\n">> ELSE <<>>)
               \o (IF text THEN <<"Issue Description:\n">>
                   ELSE <<"No description provided for this issue.\n\n">>)
               \o (IF text /\ Cardinality(FenceMarkers(split(issue.body[1], NL))) >= 2
                   THEN <<"Code Blocks Found: ", "Languages detected: ">> ELSE <<>>)
               \o (IF text /\ HasMention(issue.body[1]) THEN <<"Mentions:\n">> ELSE <<>>)
               \o <<"Suggestions:\n", "\nAI Insights:\n">>
        /\ out[Len(out)] = <<"\nAI Insights:\n", arg.text, "\n">>

\* an issue with labels, a code block and a mention
C8_Witness ==
  /\ Called("analyzeIssue")
  /\ Len(arg.issue.labels) = 2
  /\ arg.issue.body = <<join(<<Fence, <<"h", "i", " ", "@", "b", "o", "b">>, Fence>>, <<NL>>)>>
  /\ \E i \in 1..Len(ret[1]) :
       ret[1][i][1] = "Code Blocks Found: " /\ ret[1][i][2] = 1
  /\ \E i \in 1..Len(ret[1]) :
       /\ ret[1][i][1] = "Languages detected: "
       /\ ret[1][i][2] = <<>>
  /\ \E i \in 2..Len(ret[1]) :
       /\ ret[1][i - 1][1] = "Mentions:\n"
       /\ ret[1][i][1] = "- "
       /\ ret[1][i][2] = <<"b", "o", "b">>

----------------------------------------------------------------------------
(* Properties of main() and of the asynchronous methods (Spec).            *)

\* call c has returned or thrown
Ended(c) == c \in 1..Len(calls) /\ \A i \in 1..Len(stack) : stack[i].id # c

\* the requests made by call c itself, and by c and the calls nested in it
RequestsOf(c, kind) == {i \in 1..Len(log) : log[i].call = c /\ log[i].kind = kind}
RequestsUnder(c, kind) == {i \in 1..Len(log) : log[i].root = c /\ log[i].kind = kind}
FailedUnder(c) == {i \in 1..Len(log) : log[i].root = c /\ log[i].result # "ok"}

CallsOf(op) == {c \in 1..Len(calls) : calls[c].op = op}

\* C1: analyzeIssue never raises to its caller; it returns a string, and
\* whenever its fetch or its AI insight call fails it returns exactly the fixed
\* degraded string.
C1_AnalyzeIssueDegrades ==
  /\ raised # <<>> => raised[1].op # "analyzeIssue"
  /\ \A c \in CallsOf("analyzeIssue") :
       Ended(c) =>
         /\ returned[MainIndex("analyzeIssue")] # <<>>
         /\ FailedUnder(c) # {} => returned[MainIndex("analyzeIssue")] = <<Degraded>>

\* the fetch succeeded, the AI insight call failed, the degraded string came back
C1_Witness ==
  /\ Ended(1)
  /\ Len(log) >= 2
  /\ log[1].kind = "tracker" /\ log[1].result = "ok"
  /\ log[2].kind = "ai" /\ log[2].result = "error" /\ log[2].call = 1
  /\ returned[1] = <<Degraded>>
  /\ raised = <<>>

\* C2: no top-level entry point (analyzeIssue, suggestLabels, prioritizeIssue,
\* generateHtmlReport) ever ends with a raised error: its caller sees a full
\* result or a degraded message.
C2_NoRaisedError == raised = <<>>

\* C3: a failure of label suggestion does not block priority computation: in a
\* run that has ended, every failed request of suggestLabels is followed by a
\* request of prioritizeIssue.
C3_PriorityAfterLabelFailure ==
  (pc = "done" /\ stack = <<>>) =>
    \A i \in 1..Len(log) :
      (log[i].op = "suggestLabels" /\ log[i].result # "ok") =>
        \E j \in (i + 1)..Len(log) : log[j].op = "prioritizeIssue"

\* C9: every call issues at most one tracker request of its own, exactly one
\* once it has ended; a generateHtmlReport in which no request fails issues
\* exactly three, its own and one in each nested call; after a failed request
\* no further request is issued within the same top-level operation.
C9_FreshRequests ==
  /\ \A c \in 1..Len(calls) :
       /\ Cardinality(RequestsOf(c, "tracker")) <= 1
       /\ Ended(c) => Cardinality(RequestsOf(c, "tracker")) = 1
  /\ \A c \in CallsOf("generateHtmlReport") :
       (Ended(c) /\ FailedUnder(c) = {}) =>
         /\ Cardinality(RequestsUnder(c, "tracker")) = 3
         /\ \A op \in {"generateHtmlReport", "suggestLabels", "prioritizeIssue"} :
              \E i \in RequestsUnder(c, "tracker") : log[i].op = op
  /\ \A i, j \in 1..Len(log) :
       (i < j /\ log[i].result # "ok") => log[j].root # log[i].root

\* a whole run in which no request failed
C9_Witness ==
  /\ pc = "done" /\ stack = <<>> /\ raised = <<>>
  /\ \A i \in 1..Len(log) : log[i].result = "ok"
  /\ Cardinality({i \in 1..Len(log) : log[i].kind = "tracker"}) = 6

\* the requests a generateHtmlReport makes before it writes the file
ReportRequests ==
  << <<"generateHtmlReport", "tracker">>, <<"generateHtmlReport", "ai">>,
     <<"suggestLabels", "tracker">>, <<"suggestLabels", "ai">>,
     <<"prioritizeIssue", "tracker">>, <<"prioritizeIssue", "ai">> >>

\* the requests under call c before log entry j, in order
RequestsBefore(c, j) ==
  LET under(r) == r.root = c
      sub == SelectSeq(SubSeq(log, 1, j - 1), under)
  IN  [i \in 1..Len(sub) |-> <<sub[i].op, sub[i].kind>>]

\* C10: generateHtmlReport writes issue-{issueNumber}-report.html at most once
\* per call and only after its fetch, its AI insight call and the fetch and AI
\* call of the nested suggestLabels and prioritizeIssue all succeeded; if one
\* of them fails no file is written and no filename is returned.
C10_WriteOnceAfterAll ==
  /\ \A c \in CallsOf("generateHtmlReport") :
       /\ Cardinality(RequestsUnder(c, "file")) <= 1
       /\ \A j \in RequestsUnder(c, "file") :
            /\ RequestsBefore(c, j) = ReportRequests
            /\ \A i \in 1..(j - 1) : log[i].root = c => log[i].result = "ok"
       /\ (\E i \in FailedUnder(c) : log[i].kind # "file") =>
            /\ RequestsUnder(c, "file") = {}
            /\ files = {}
            /\ returned[MainIndex("generateHtmlReport")] = <<>>
  /\ \A w \in files :
       /\ w.name = filename(IssueNumber)
       /\ \E i \in 1..Len(log) : log[i].kind = "file" /\ log[i].result = "ok"
  /\ returned[MainIndex("generateHtmlReport")] # <<>> =>
       /\ returned[MainIndex("generateHtmlReport")] = <<filename(IssueNumber)>>
       /\ files # {}

\* the report was written and its filename returned
C10_Witness ==
  /\ returned[MainIndex("generateHtmlReport")] = <<filename(IssueNumber)>>
  /\ Cardinality(files) = 1
  /\ log[Len(log)].kind = "file"

====
